---- MODULE Spec2Model ----
(***************************************************************************)
(* State-machine model of PCR300Virtual, the virtual PCR-300 MIDI control  *)
(* surface of src/midi_mapper_with_pyserial_without_midilearn.py.          *)
(*                                                                         *)
(* Timestamps (time.time()) are whole milliseconds; the thresholds 0.05 s  *)
(* and 0.5 s are 50 and 500.  Strings built by f-strings are records of    *)
(* their parts.  Python dicts are sequences of <<key, value>> pairs in     *)
(* insertion order where the order is observable, functions otherwise.     *)
(***************************************************************************)
EXTENDS Integers, Sequences, FiniteSets, TLC

(* ------------------------- module-level constants ---------------------- *)
SLIDER_VERTICAL_CC_BASE == 17

S9_CC == 18

SLIDER_HORIZONTAL_CC == 19

KNOB_CC_BASE == 16

BUTTON_MAPPINGS ==
    << [name |-> "Sustain", cc |-> 64],
       [name |-> "Back",  cc |-> 82], [name |-> "Stop", cc |-> 82],
       [name |-> "Start", cc |-> 82], [name |-> "Rec",  cc |-> 82],
       [name |-> "A1", cc |-> 80], [name |-> "A2", cc |-> 80],
       [name |-> "A3", cc |-> 80], [name |-> "A4", cc |-> 80],
       [name |-> "A5", cc |-> 80], [name |-> "A6", cc |-> 80],
       [name |-> "A7", cc |-> 80], [name |-> "A8", cc |-> 80],
       [name |-> "A9", cc |-> 83],
       [name |-> "B1", cc |-> 81], [name |-> "B2", cc |-> 81],
       [name |-> "B3", cc |-> 81], [name |-> "B4", cc |-> 81],
       [name |-> "B5", cc |-> 81], [name |-> "B6", cc |-> 81],
       [name |-> "B7", cc |-> 81], [name |-> "B8", cc |-> 81],
       [name |-> "B9", cc |-> 83] >>

CHANNEL == 0

KEYBOARD_BASE_NOTE == 36

WHITE_KEYS == 42

semitone_offsets == <<1, 3, 6, 8, 10>>

(* thresholds of on_key_release, in milliseconds *)
min_duration == 50

max_duration == 500

(* velocity on_key_press sends with its Note On *)
press_velocity == 100

(* ------------------------------ bounds --------------------------------- *)
(* latest timestamp of the velocity estimator's specification *)
MaxTime == 520

(* the late press of that specification, and a release a minute later *)
LatePress == 20

LongHold == 60000

(* activations counted per button *)
MaxPresses == 3

(* ------------------------------ helpers -------------------------------- *)
Max(a, b) == IF a >= b THEN a ELSE b

Min(a, b) == IF a <= b THEN a ELSE b

Range(s) == {s[i] : i \in 1..Len(s)}

RECURSIVE BitAnd(_, _)
BitAnd(a, b) ==
    IF a = 0 \/ b = 0 THEN 0
    ELSE (IF a % 2 = 1 /\ b % 2 = 1 THEN 1 ELSE 0) + 2 * BitAnd(a \div 2, b \div 2)

RECURSIVE BitOr(_, _)
BitOr(a, b) ==
    IF a = 0 THEN b
    ELSE IF b = 0 THEN a
    ELSE (IF a % 2 = 1 \/ b % 2 = 1 THEN 1 ELSE 0) + 2 * BitOr(a \div 2, b \div 2)

(* list.index(x): position of the first occurrence, 0-based *)
index(s, x) == (CHOOSE i \in 1..Len(s) : s[i] = x /\ \A j \in 1..(i - 1) : s[j] # x) - 1

(* dict operations on a sequence of <<key, value>> pairs *)
DictKeys(d) == {d[i][1] : i \in 1..Len(d)}

DictGet(d, k) == d[CHOOSE i \in 1..Len(d) : d[i][1] = k][2]

DictSet(d, k, v) ==
    IF k \in DictKeys(d)
    THEN [i \in 1..Len(d) |-> IF d[i][1] = k THEN <<k, v>> ELSE d[i]]
    ELSE Append(d, <<k, v>>)

DictDel(d, k) == SelectSeq(d, LAMBDA p : p[1] # k)

(* ------------------------- the virtual keyboard ------------------------ *)
(* Canvas item ids in creation order: per octave 7 white keys, then 5 black *)
num_octaves == WHITE_KEYS \div 7

white_key_ids ==
    [i \in 1..(num_octaves * 7) |-> ((i - 1) \div 7) * 12 + ((i - 1) % 7) + 1]

black_key_ids ==
    [j \in 1..(num_octaves * 5) |-> ((j - 1) \div 5) * 12 + 7 + ((j - 1) % 5) + 1]

(* the note on_key_press / on_key_release derive from a canvas item *)
NoNote == -1

key_note(item_id) ==
    IF item_id \in Range(white_key_ids)
    THEN KEYBOARD_BASE_NOTE + index(white_key_ids, item_id)
    ELSE IF item_id \in Range(black_key_ids)
    THEN LET i == index(black_key_ids, item_id)
             octave == i \div 5
             position_in_octave == i % 5
         IN  KEYBOARD_BASE_NOTE + (octave * 12) + semitone_offsets[position_in_octave + 1]
    ELSE NoNote

(* --------------------------- velocity estimator ------------------------ *)
(* round(), as Python rounds the exact quotient num / den: to the nearest
   integer, a tie to the even one *)
rounded(num, den) ==
    LET q == num \div den
        r == num % den
    IN  IF 2 * r < den THEN q
        ELSE IF 2 * r > den THEN q + 1
        ELSE IF q % 2 = 0 THEN q ELSE q + 1

(* duration = max(min_duration, min(duration, max_duration)) *)
clamp_duration(duration) == Max(min_duration, Min(duration, max_duration))

(* faulty variants: round() in place of int(); the mapping without its inversion *)
scale_velocity_rounded(duration) ==
    rounded(127 * ((max_duration - min_duration) - (duration - min_duration)),
            max_duration - min_duration)

scale_velocity_direct(duration) ==
    (127 * (duration - min_duration)) \div (max_duration - min_duration)

(* int(127 * (1 - (duration - min_duration) / (max_duration - min_duration))):
   int() truncates toward zero; the operand is never negative here *)
scale_velocity(duration) ==
    (127 * ((max_duration - min_duration) - (duration - min_duration)))
        \div (max_duration - min_duration)

(* faulty variant: the lower bound forgotten *)
clamp_velocity_no_floor(velocity) == Min(127, velocity)

(* velocity = max(1, min(127, velocity)) *)
clamp_velocity(velocity) == Max(1, Min(127, velocity))

(* faulty variant: neither clamp applied *)
release_velocity_unclamped(press_time, release_time) ==
    scale_velocity(release_time - press_time)

release_velocity(press_time, release_time) ==
    clamp_velocity(scale_velocity(clamp_duration(release_time - press_time)))

(* ------------------------------- state --------------------------------- *)
VARIABLES
    serial_conn,            \* "None" (open failed), "open", "closed"
    button_states,          \* button name -> pressed flag
    key_press_times,        \* canvas item id -> press timestamp (a dict)
    active_notes,           \* dict note -> velocity, in insertion order
    knob_value,             \* knob index (0-based) -> CircularKnob.value
    slider_value,           \* vertical slider index (0-based) -> the Scale's value
    hslider_value,          \* the horizontal Scale's value
    display_text,           \* the "LCD" text, as the parts of its f-string
    config_data,            \* the configuration load_config returned
    config_file,            \* what pcr300_config.json holds
    midi_devices,           \* mido.get_input_names(), in order
    selected_midi_device,   \* the combobox's text
    midi_input,             \* name of the open input port, NoPort if none
    open_ports,             \* the input ports mido holds open, oldest first
    mouse,                  \* widget on which mouse button 1 went down, if any
    running,                \* FALSE once on_closing has destroyed the window
    ev,                     \* the handler that ran last and its arguments
    calls,                  \* messages handed to send_* by that handler
    wire,                   \* byte strings that handler wrote to the serial port
    attempts,               \* outcome of each serial_conn.write that handler called
    error,                  \* exception that escaped that handler, "None" if none
    presses,                \* how often each button has been activated
    last_off,               \* duration and velocity of the last Note Off of on_key_release
    midi_synced,            \* buttons whose flag an incoming Control Change has set
    key_hist,               \* per canvas item, since its last press: releases and Note Offs
    focus,                  \* the group of controls the user works in this run
    midi_thread             \* where mido's callback thread is in handle_midi_message

vars == << serial_conn, button_states, key_press_times, active_notes, knob_value,
           slider_value, hslider_value, display_text, config_data, config_file, midi_devices, selected_midi_device,
           midi_input, open_ports, mouse, running, ev, calls, wire, attempts, error, presses, last_off,
           midi_synced, key_hist, focus, midi_thread >>

(* groups for UNCHANGED *)
config_vars ==
    << config_data, config_file, midi_devices, selected_midi_device, midi_input, open_ports,
       focus, midi_thread >>

key_hist_vars == << last_off, key_hist >>

ButtonNames == {BUTTON_MAPPINGS[i].name : i \in 1..Len(BUTTON_MAPPINGS)}

NoPort == "<None>"

NUM_KNOBS == 18

NUM_VERTICAL_SLIDERS == 9

Text(fmt, name, n, v) == [fmt |-> fmt, name |-> name, n |-> n, v |-> v]

Event(op, name, num, val) == [op |-> op, name |-> name, num |-> num, val |-> val]

(* the mouse: up, or down on a keyboard item, or down on knob id since time t *)
MouseUp == [widget |-> "none", id |-> 0, t |-> 0]

MouseOn(widget, id, t) == [widget |-> widget, id |-> id, t |-> t]

(* ---------------------------- serial senders --------------------------- *)
(* bytes([...]) raises ValueError unless every element is in range(256) *)
bytes_ok(list) == \A i \in 1..Len(list) : list[i] \in 0..255

Msg(kind, d1, d2) == [kind |-> kind, d1 |-> d1, d2 |-> d2]

(* status bytes before the channel is or-ed in *)
NOTE_OFF_STATUS == 128

NOTE_ON_STATUS == 144

CONTROL_CHANGE_STATUS == 176

(* faulty variant: the channel masked to three bits *)
channel_status_3bit(status_base, channel) == BitOr(status_base, BitAnd(channel, 7))

(* status = 0x90 | (channel & 0x0F), for whatever channel the constant names *)
channel_status(status_base, channel) == BitOr(status_base, BitAnd(channel, 15))

status_byte(status_base) == channel_status(status_base, CHANNEL)

(* the status each sender starts from *)
kind_status(kind) ==
    CASE kind = "note_off" -> NOTE_OFF_STATUS
      [] kind = "note_on" -> NOTE_ON_STATUS
      [] kind = "control_change" -> CONTROL_CHANGE_STATUS

(* faulty variant: the data bytes in the wrong order *)
pack_swapped(status, d1, d2) == <<status, d2, d1>>

(* bytes([status, d1, d2]) *)
pack(status, d1, d2) == <<status, d1, d2>>

(* faulty variant: no test of serial_conn, so a missing port raises *)
serial_send_unguarded(status_base, d1, d2, write_ok) ==
    LET message == pack(status_byte(status_base), d1, d2)
    IN  IF serial_conn = "open"
        THEN [wire |-> IF write_ok THEN <<message>> ELSE << >>,
              written |-> write_ok, error |-> "None", tried |-> <<write_ok>>]
        ELSE [wire |-> << >>, written |-> FALSE, error |-> "AttributeError", tried |-> << >>]

(* faulty variant: a failed write is tried once more *)
serial_send_retry(status_base, d1, d2, write_ok) ==
    LET message == pack(status_byte(status_base), d1, d2)
    IN  IF serial_conn = "open"
        THEN [wire |-> <<message>>, written |-> TRUE, error |-> "None",
              tried |-> IF write_ok THEN <<TRUE>> ELSE <<FALSE, TRUE>>]
        ELSE [wire |-> << >>, written |-> FALSE, error |-> "None", tried |-> << >>]

(* the common body of send_control_change / send_note_on / send_note_off:
   written is TRUE when serial_conn.write returned normally, write_ok FALSE
   when it raised SerialException (caught and printed) *)
serial_send(status_base, d1, d2, write_ok) ==
    LET message == pack(status_byte(status_base), d1, d2)
    IN  IF serial_conn = "open"
        THEN IF bytes_ok(message)
             THEN [wire |-> IF write_ok THEN <<message>> ELSE << >>,
                   written |-> write_ok, error |-> "None", tried |-> <<write_ok>>]
             ELSE [wire |-> << >>, written |-> FALSE, error |-> "ValueError", tried |-> << >>]
        ELSE [wire |-> << >>, written |-> FALSE, error |-> "None", tried |-> << >>]

(* What a handler has done so far: the messages handed to the senders, the
   bytes written, the exception that ended it, the active notes, the number
   of writes attempted (the next one's outcome is oks[n + 1]). *)
Out0 ==
    [calls |-> << >>, wire |-> << >>, tried |-> << >>, error |-> "None",
     notes |-> active_notes, n |-> 0]

send_control_change(o, control, value, oks) ==
    IF o.error # "None" THEN o
    ELSE LET r == serial_send(CONTROL_CHANGE_STATUS, control, value, oks[o.n + 1])
         IN  [calls |-> Append(o.calls, Msg("control_change", control, value)),
              wire |-> o.wire \o r.wire, tried |-> o.tried \o r.tried, error |-> r.error,
              notes |-> o.notes,
              n |-> o.n + 1]

(* faulty variant: setdefault, the first velocity kept *)
note_on_effect_first(notes, note, velocity) ==
    IF note \in DictKeys(notes) THEN notes ELSE DictSet(notes, note, velocity)

(* self.active_notes[note] = velocity *)
note_on_effect(notes, note, velocity) == DictSet(notes, note, velocity)

send_note_on(o, note, velocity, oks) ==
    IF o.error # "None" THEN o
    ELSE LET r == serial_send(NOTE_ON_STATUS, note, velocity, oks[o.n + 1])
         IN  [calls |-> Append(o.calls, Msg("note_on", note, velocity)),
              wire |-> o.wire \o r.wire, tried |-> o.tried \o r.tried, error |-> r.error,
              notes |-> IF r.written THEN note_on_effect(o.notes, note, velocity) ELSE o.notes,
              n |-> o.n + 1]

note_off_effect(notes, note) == IF note \in DictKeys(notes) THEN DictDel(notes, note) ELSE notes

send_note_off(o, note, velocity, oks) ==
    IF o.error # "None" THEN o
    ELSE LET r == serial_send(NOTE_OFF_STATUS, note, velocity, oks[o.n + 1])
         IN  [calls |-> Append(o.calls, Msg("note_off", note, velocity)),
              wire |-> o.wire \o r.wire, tried |-> o.tried \o r.tried, error |-> r.error,
              notes |-> IF r.written THEN note_off_effect(o.notes, note) ELSE o.notes,
              n |-> o.n + 1]

(* outcomes of the next n serial writes *)
Oks(n) == [1..n -> BOOLEAN]

(* canvas items this model plays: white keys 0 and 1, black key 0 (the last
   two both give note 37), and the last white and the last black key *)
TrackedKeys ==
    {1, 2, 8, white_key_ids[Len(white_key_ids)], black_key_ids[Len(black_key_ids)]}

(* ----------------------------- configuration --------------------------- *)
Config(midi_device, mappings) == [midi_device |-> midi_device, mappings |-> mappings]

(* one entry of "mappings": control id -> {type, control | note, channel} *)
Mapping(id, type, number, channel) ==
    [id |-> id, type |-> type, number |-> number, channel |-> channel]

EmptyConfig == Config(NoPort, << >>)

File(status, content) == [status |-> status, content |-> content]

(* faulty variant: the parse error not caught, what was read is used *)
load_config_unchecked(file) == IF file.status = "missing" THEN EmptyConfig ELSE file.content

(* {} when the file does not exist or json.load raises; a file that does not
   parse has status "malformed", its content what the text was meant to hold *)
load_config(file) == IF file.status = "ok" THEN file.content ELSE EmptyConfig

(* the combobox's text after create_main_interface *)
initial_selection(config, devices) ==
    IF config.midi_device \in Range(devices) THEN config.midi_device
    ELSE IF devices # << >> THEN devices[1]
    ELSE "Nenhum dispositivo"

(* init_midi: the port it opens; open_ok FALSE when mido.open_input raises IOError *)
init_midi(config, devices, open_ok) ==
    IF config.midi_device # NoPort /\ config.midi_device # ""
       /\ config.midi_device \in Range(devices) /\ open_ok
    THEN config.midi_device
    ELSE NoPort

(* ------------------------------ start-up ------------------------------- *)
InitWith(focuses, serials, files, device_lists) ==
    /\ focus \in focuses
    /\ serial_conn \in serials
    /\ config_file \in files
    /\ midi_devices \in device_lists
    /\ config_data = load_config(config_file)
    /\ selected_midi_device = initial_selection(config_data, midi_devices)
    /\ \E open_ok \in BOOLEAN : midi_input = init_midi(config_data, midi_devices, open_ok)
    /\ open_ports = IF midi_input = NoPort THEN << >> ELSE << midi_input >>
    /\ button_states = [b \in ButtonNames |-> FALSE]
    /\ key_press_times = << >>
    /\ active_notes = << >>
    /\ knob_value = [k \in 0..(NUM_KNOBS - 1) |-> 64]
    /\ slider_value = [i \in 0..(NUM_VERTICAL_SLIDERS - 1) |-> 0]
    /\ hslider_value = 64
    /\ display_text = Text("PCR-300", "", 0, 0)
    /\ mouse = MouseUp
    /\ running = TRUE
    /\ ev = Event("__init__", "", 0, 0)
    /\ calls = << >>
    /\ wire = << >>
    /\ attempts = << >>
    /\ error = "None"
    /\ presses = [b \in ButtonNames |-> 0]
    /\ last_off = [d |-> 0, v |-> 0]
    /\ midi_synced = {}
    /\ key_hist = [k \in TrackedKeys |-> [pressed |-> FALSE, released |-> FALSE, offs |-> 0]]
    /\ midi_thread = [stage |-> "idle", message |-> [type |-> "none", number |-> 0, value |-> 0,
                                                     channel |-> 0]]

(* What a handler has done so far to the widgets: o as above, the knobs,
   sliders, buttons and display as it leaves them. *)
H0 ==
    [o |-> Out0, knobs |-> knob_value, sliders |-> slider_value, hslider |-> hslider_value,
     buttons |-> button_states, display |-> display_text, synced |-> midi_synced]

shown(h, o, text) == IF o.error = "None" THEN text ELSE h.display

Finish(h, op) ==
    /\ calls' = h.o.calls
    /\ wire' = h.o.wire
    /\ attempts' = h.o.tried
    /\ error' = h.o.error
    /\ active_notes' = h.o.notes
    /\ knob_value' = h.knobs
    /\ slider_value' = h.sliders
    /\ hslider_value' = h.hslider
    /\ button_states' = h.buttons
    /\ display_text' = h.display
    /\ midi_synced' = h.synced
    /\ ev' = op

(* ------------------------------- buttons ------------------------------- *)
button_cc(btn_name) ==
    BUTTON_MAPPINGS[CHOOSE i \in 1..Len(BUTTON_MAPPINGS) : BUTTON_MAPPINGS[i].name = btn_name].cc

(* faulty variant: one flag per CC number, so buttons sharing a CC toggle together *)
toggled_by_cc(states, btn_name) ==
    [b \in DOMAIN states |->
        IF button_cc(b) = button_cc(btn_name) THEN ~states[b] ELSE states[b]]

(* self.button_states[btn_name] = not self.button_states[btn_name] *)
toggled(states, btn_name) == [states EXCEPT ![btn_name] = ~states[btn_name]]

(* faulty variant: the two values exchanged *)
button_value_swapped(state) == IF state THEN 0 ELSE 127

(* val = 127 if self.button_states[btn_name] else 0 *)
button_value(state) == IF state THEN 127 ELSE 0

button_pressed(h, btn_name, cc_num, oks) ==
    LET states == toggled(h.buttons, btn_name)
        val == button_value(states[btn_name])
        o == send_control_change(h.o, cc_num, val, oks)
    IN  [h EXCEPT !.buttons = states, !.o = o,
                  !.display = shown(h, o, Text("{name} -> {v}", btn_name, 0, val))]

on_button_press(btn_name, cc_num, oks) ==
    /\ running
    /\ presses[btn_name] < MaxPresses
    /\ presses' = [presses EXCEPT ![btn_name] = @ + 1]
    /\ Finish(button_pressed(H0, btn_name, cc_num, oks),
              Event("on_button_press", btn_name, cc_num, 0))
    /\ UNCHANGED << serial_conn, key_press_times, config_vars, mouse, running,
                    key_hist_vars >>

(* ------------------------------- sliders ------------------------------- *)
(* faulty variant: S9 numbered after S8 *)
vertical_slider_cc_linear(i) == SLIDER_VERTICAL_CC_BASE + i

(* the cc_num create_main_interface binds to vertical slider i (0-based) *)
vertical_slider_cc(i) == IF i < 8 THEN SLIDER_VERTICAL_CC_BASE + i ELSE S9_CC

slider_number(cc_num) == IF cc_num = S9_CC THEN 9 ELSE cc_num - SLIDER_VERTICAL_CC_BASE + 1

vertical_slider_moved(h, cc_num, value, oks) ==
    LET o == send_control_change(h.o, cc_num, value, oks)
    IN  [h EXCEPT !.o = o,
                  !.display = shown(h, o, Text("S{n}={v}", "", slider_number(cc_num), value))]

horizontal_slider_moved(h, value, oks) ==
    LET o == send_control_change(h.o, SLIDER_HORIZONTAL_CC, value, oks)
    IN  [h EXCEPT !.o = o, !.display = shown(h, o, Text("H1={v}", "", 1, value))]

(* Scale.set(value), by the user's drag or by the program: the widget calls
   its command with the new value when the value changes *)
vertical_slider_set(h, i, value, oks) ==
    IF h.sliders[i] = value THEN h
    ELSE vertical_slider_moved([h EXCEPT !.sliders[i] = value], vertical_slider_cc(i), value, oks)

horizontal_slider_set(h, value, oks) ==
    IF h.hslider = value THEN h
    ELSE horizontal_slider_moved([h EXCEPT !.hslider = value], value, oks)

on_vertical_slider(i, value, oks) ==
    /\ running
    /\ slider_value[i] # value
    /\ Finish(vertical_slider_set(H0, i, value, oks),
              Event("on_vertical_slider", "", i, value))
    /\ UNCHANGED << serial_conn, key_press_times, config_vars, mouse, running, presses,
                    key_hist_vars >>

on_horizontal_slider(value, oks) ==
    /\ running
    /\ hslider_value # value
    /\ Finish(horizontal_slider_set(H0, value, oks),
              Event("on_horizontal_slider", "", 0, value))
    /\ UNCHANGED << serial_conn, key_press_times, config_vars, mouse, running, presses,
                    key_hist_vars >>

(* -------------------------------- knobs -------------------------------- *)
knob_cc(k) == KNOB_CC_BASE + k

on_knob_change(h, cc_num, value, oks) ==
    LET o == send_control_change(h.o, cc_num, value, oks)
    IN  [h EXCEPT !.o = o,
                  !.display = shown(h, o, Text("R{n}={v}", "", cc_num - KNOB_CC_BASE + 1, value))]

(* faulty variant: the command invoked whether or not the value changed *)
set_value_always(h, k, value, oks) ==
    LET v == Max(0, Min(127, value))
    IN  on_knob_change([h EXCEPT !.knobs[k] = v], knob_cc(k), v, oks)

(* CircularKnob.set_value(value): command is lambda val, cc=cc_num: on_knob_change(cc, val) *)
set_value(h, k, value, oks) ==
    LET v == Max(0, Min(127, value))
    IN  IF v # h.knobs[k]
        THEN on_knob_change([h EXCEPT !.knobs[k] = v], knob_cc(k), v, oks)
        ELSE h

(* CircularKnob.update_value, from the pointer's angle in whole degrees 0..359 *)
update_value(h, k, angle_deg, oks) ==
    IF 135 <= angle_deg /\ angle_deg <= 225 THEN h
    ELSE LET normalized_angle == IF angle_deg < 135 THEN 135 - angle_deg
                                 ELSE 135 + (360 - angle_deg)
         IN  set_value(h, k, (normalized_angle * 127) \div 270, oks)

(* CircularKnob.release: self.command(self.value, velocity) binds velocity to
   the lambda's second parameter cc *)
knob_released(h, k, press_time, now, oks) ==
    on_knob_change(h, release_velocity(press_time, now), h.knobs[k], oks)

click(k, angle_deg, now, oks) ==
    LET h == update_value(H0, k, angle_deg, oks)
    IN  /\ running
        /\ mouse = MouseUp
        /\ mouse' = MouseOn("knob", k, now)
        /\ Finish(h, Event("click", "", k, angle_deg))
        /\ UNCHANGED << serial_conn, key_press_times, config_vars, running, presses,
                        key_hist_vars >>

drag(k, angle_deg, oks) ==
    /\ running
    /\ mouse.widget = "knob" /\ mouse.id = k
    /\ Finish(update_value(H0, k, angle_deg, oks), Event("drag", "", k, angle_deg))
    /\ UNCHANGED << serial_conn, key_press_times, config_vars, mouse, running, presses,
                    key_hist_vars >>

release(k, now, oks) ==
    /\ running
    /\ mouse.widget = "knob" /\ mouse.id = k
    /\ mouse' = MouseUp
    /\ Finish(knob_released(H0, k, mouse.t, now, oks), Event("release", "", k, now))
    /\ UNCHANGED << serial_conn, key_press_times, config_vars, running, presses, key_hist_vars >>

(* ------------------------------- keyboard ------------------------------ *)
(* self.key_press_times.pop(item_id, None): what it returns ... *)
NoTime == -1

(* faulty variant: pop(item_id, 0), a default timestamp in place of None *)
recorded_press_default(times, item_id) ==
    [found |-> TRUE, time |-> IF item_id \in DOMAIN times THEN times[item_id] ELSE 0]

recorded_press(times, item_id) ==
    IF item_id \in DOMAIN times
    THEN [found |-> TRUE, time |-> times[item_id]]
    ELSE [found |-> FALSE, time |-> NoTime]

(* faulty variant: get() in place of pop(), the record stays *)
popped_kept(times, item_id) == times

(* ... and the dict it leaves *)
popped(times, item_id) == [x \in (DOMAIN times) \ {item_id} |-> times[x]]

key_pressed(h, item_id, oks) ==
    LET note == key_note(item_id)
        o == send_note_on(h.o, note, press_velocity, oks)
    IN  IF note = NoNote THEN h
        ELSE [h EXCEPT !.o = o,
                       !.display = shown(h, o, Text("Note {n} ON (Vel: {v})", "", note,
                                                  press_velocity))]

on_key_press(item_id, now, oks) ==
    /\ running
    /\ mouse = MouseUp
    /\ mouse' = MouseOn("key", item_id, 0)
    /\ key_press_times' = (item_id :> now) @@ key_press_times
    /\ key_hist' = [key_hist EXCEPT ![item_id] =
                       [pressed |-> TRUE, released |-> FALSE, offs |-> 0]]
    /\ Finish(key_pressed(H0, item_id, oks), Event("on_key_press", "", item_id, now))
    /\ UNCHANGED << serial_conn, config_vars, running, presses, last_off >>

key_released(h, item_id, press_time, now, oks) ==
    LET velocity == release_velocity(press_time, now)
        note == key_note(item_id)
        o == send_note_off(h.o, note, velocity, oks)
    IN  IF note = NoNote THEN h
        ELSE [h EXCEPT !.o = o,
                       !.display = shown(h, o, Text("Note {n} OFF (Vel: {v})", "", note,
                                                  velocity))]

on_key_release(item_id, now, oks) ==
    LET press == recorded_press(key_press_times, item_id)
        h == IF press.found THEN key_released(H0, item_id, press.time, now, oks) ELSE H0
        sent == Len(h.o.calls)
    IN  /\ running
        /\ mouse.widget = "key"
        /\ mouse' = MouseUp
        /\ key_press_times' = popped(key_press_times, item_id)
        /\ last_off' = IF sent > 0
                       THEN [d |-> now - press.time, v |-> h.o.calls[1].d2]
                       ELSE last_off
        /\ key_hist' = [key_hist EXCEPT ![item_id].released = TRUE,
                                        ![item_id].offs = @ + sent]
        /\ Finish(h, Event("on_key_release", "", item_id, now))
        /\ UNCHANGED << serial_conn, config_vars, running, presses >>

(* ------------------------------ MIDI input ----------------------------- *)
(* control ids of the form S<n> and R<n>, whose tail int() parses *)
SNames == << "S1", "S2", "S3", "S4", "S5", "S6", "S7", "S8", "S9", "S10" >>

RNames ==
    << "R1", "R2", "R3", "R4", "R5", "R6", "R7", "R8", "R9", "R10", "R11", "R12", "R13", "R14", "R15", "R16", "R17", "R18", "R19" >>

(* control_id.startswith(letter), for the ids a configuration can name *)
startswith(control_id, letter) ==
    CASE letter = "S" -> control_id \in Range(SNames) \cup {"Sustain", "Stop", "Start"}
      [] letter = "R" -> control_id \in Range(RNames) \cup {"Rec"}
      [] letter = "H" -> control_id \in {"H1", "H2"}
      [] OTHER -> FALSE

(* faulty variant: any value above 0 counts as pressed, as handle_midi_note_on has it *)
midi_button_state_nonzero(value) == value > 0

(* state = value == 127 *)
midi_button_state(value) == value = 127

(* try: ... except: pass *)
swallowed(h) == [h EXCEPT !.o.error = "None"]

(* the body of handle_midi_control_change's loop for one matching mapping *)
update_mapped_control(h, control_id, value, oks) ==
    IF startswith(control_id, "S")
    THEN IF control_id \in Range(SNames) /\ index(SNames, control_id) < NUM_VERTICAL_SLIDERS
         THEN vertical_slider_set(h, index(SNames, control_id), value, oks)
         ELSE h
    ELSE IF startswith(control_id, "H")
    THEN IF control_id = "H1" THEN horizontal_slider_set(h, value, oks) ELSE h
    ELSE IF startswith(control_id, "R")
    THEN IF control_id \in Range(RNames) /\ index(RNames, control_id) < NUM_KNOBS
         THEN swallowed(set_value(h, index(RNames, control_id), value, oks))
         ELSE h
    ELSE IF control_id \in ButtonNames
    THEN LET state == midi_button_state(value)
         IN  [h EXCEPT !.buttons[control_id] = state,
                       !.synced = h.synced \cup {control_id},
                       !.display = Text("{name} -> {v}", control_id, 0, button_value(state))]
    ELSE h

RECURSIVE handle_midi_control_change(_, _, _, _, _, _)
handle_midi_control_change(h, mappings, control, value, channel, oks) ==
    IF mappings = << >> \/ h.o.error # "None" THEN h
    ELSE LET midi_info == Head(mappings)
             h2 == IF midi_info.type = "control_change" /\ midi_info.number = control
                      /\ midi_info.channel = channel
                   THEN update_mapped_control(h, midi_info.id, value, oks)
                   ELSE h
         IN  handle_midi_control_change(h2, Tail(mappings), control, value, channel, oks)

(* controller_to_virtual_map.get(note, None) *)
controller_to_virtual(note) == IF note \in 36..107 THEN note ELSE 0

is_white_note(note) ==
    \E i \in 0..(Len(white_key_ids) - 1) : KEYBOARD_BASE_NOTE + i = note

is_black_note(note) ==
    \E i \in 0..(Len(black_key_ids) - 1) :
        KEYBOARD_BASE_NOTE + ((i \div 5) * 12) + semitone_offsets[(i % 5) + 1] = note

virtual_note_on(h, virtual_note, velocity, oks) ==
    LET o == send_note_on(h.o, virtual_note, velocity, oks)
    IN  IF h.o.error # "None" THEN h
        ELSE [h EXCEPT !.o = o,
                       !.display = shown(h, o, Text("Note {n} ON (Vel: {v})", "",
                                                  virtual_note, velocity))]

virtual_note_off(h, virtual_note, velocity, oks) ==
    LET o == send_note_off(h.o, virtual_note, velocity, oks)
    IN  IF h.o.error # "None" THEN h
        ELSE [h EXCEPT !.o = o,
                       !.display = shown(h, o, Text("Note {n} OFF (Vel: {v})", "",
                                                  virtual_note, velocity))]

(* one loop over the white keys, then one over the black keys *)
press_virtual_key(h, virtual_note, velocity, oks) ==
    LET h1 == IF is_white_note(virtual_note)
              THEN virtual_note_on(h, virtual_note, velocity, oks) ELSE h
    IN  IF is_black_note(virtual_note)
        THEN virtual_note_on(h1, virtual_note, velocity, oks) ELSE h1

release_virtual_key(h, virtual_note, velocity, oks) ==
    LET h1 == IF is_white_note(virtual_note)
              THEN virtual_note_off(h, virtual_note, velocity, oks) ELSE h
    IN  IF is_black_note(virtual_note)
        THEN virtual_note_off(h1, virtual_note, velocity, oks) ELSE h1

MidiMessage(type, number, value, channel) ==
    [type |-> type, number |-> number, value |-> value, channel |-> channel]

(* the callback thread outside handle_midi_message *)
Idle == [stage |-> "idle", message |-> MidiMessage("none", 0, 0, 0)]

midi_message_handled(h, message, oks) ==
    IF message.type = "control_change"
    THEN handle_midi_control_change(h, config_data.mappings, message.number, message.value,
                                    message.channel, oks)
    ELSE IF message.type = "note_on"
    THEN LET virtual_note == controller_to_virtual(message.number)
         IN  IF virtual_note # 0
             THEN IF message.value > 0
                  THEN press_virtual_key(h, virtual_note, message.value, oks)
                  ELSE release_virtual_key(h, virtual_note, message.value, oks)
             ELSE h
    ELSE IF message.type = "note_off"
    THEN LET virtual_note == controller_to_virtual(message.number)
         IN  IF virtual_note # 0
             THEN release_virtual_key(h, virtual_note, message.value, oks)
             ELSE h
    ELSE h

handle_midi_message(message, oks) ==
    /\ running
    /\ midi_input # NoPort
    /\ midi_thread = Idle
    /\ Finish(midi_message_handled(H0, message, oks),
              Event("handle_midi_message", message.type, message.number, message.value))
    /\ UNCHANGED << serial_conn, key_press_times, config_vars, mouse, running, presses,
                    key_hist_vars >>

(* ---------------------------- configuration file ----------------------- *)
(* save_config: the file after json.dump, or after the exception it prints:
   "ok" rewrites the file, "unopened" leaves it (open() failed), "cut" leaves
   a truncated file (the write failed) *)
(* faulty variant: the new selection merged into what the file holds *)
save_config_merged(file, device, config, outcome) ==
    CASE outcome = "ok" -> File("ok", [file.content EXCEPT !.midi_device = device])
      [] outcome = "unopened" -> file
      [] OTHER -> File("malformed", EmptyConfig)

save_config(file, device, config, outcome) ==
    CASE outcome = "ok" -> File("ok", Config(device, config.mappings))
      [] outcome = "unopened" -> file
      [] OTHER -> File("malformed", EmptyConfig)

SaveOutcomes == {"ok", "unopened", "cut"}

(* faulty variant: the port in use left open *)
closed_input_leaked(ports, input) == ports

(* if self.midi_input: self.midi_input.close() *)
closed_input(ports, input) == SelectSeq(ports, LAMBDA p : p # input)

(* change_midi_device, after the user picked port in the combobox; present is
   whether mido.get_input_names() still lists it, open_ok whether open_input
   returned *)
change_midi_device(port, present, open_ok, outcome) ==
    /\ running
    /\ port \in Range(midi_devices)
    /\ selected_midi_device' = port
    /\ IF present /\ open_ok
       THEN /\ midi_input' = port
            /\ open_ports' = Append(closed_input(open_ports, midi_input), port)
            /\ config_data' = [config_data EXCEPT !.midi_device = port]
            /\ config_file' = save_config(config_file, port, config_data', outcome)
       ELSE /\ midi_input' = NoPort
            /\ open_ports' = closed_input(open_ports, midi_input)
            /\ UNCHANGED << config_data, config_file >>
    /\ ev' = Event("change_midi_device", port, 0, IF present /\ open_ok THEN outcome ELSE "unsaved")
    /\ calls' = << >>
    /\ wire' = << >>
    /\ attempts' = << >>
    /\ error' = "None"
    /\ UNCHANGED << serial_conn, button_states, key_press_times, active_notes, knob_value,
                    slider_value, hslider_value, display_text, midi_devices, mouse, running,
                    presses, midi_synced, key_hist_vars, focus, midi_thread >>

(* -------------------------------- closing ------------------------------ *)
(* for note, velocity in list(self.active_notes.items()): self.send_note_off(note, velocity) *)
RECURSIVE all_notes_off(_, _, _)
all_notes_off(o, items, oks) ==
    IF items = << >> THEN o
    ELSE all_notes_off(send_note_off(o, Head(items)[1], Head(items)[2], oks), Tail(items), oks)

(* faulty variant: the loop over the active notes left out *)
closing_sends_skipped(o, oks) == o

closing_sends(o, oks) == IF serial_conn = "open" THEN all_notes_off(o, o.notes, oks) ELSE o

on_closing(oks, outcome) ==
    LET o == closing_sends(Out0, oks)
    IN  /\ running
        /\ serial_conn' = IF serial_conn = "open" THEN "closed" ELSE serial_conn
        /\ midi_input' = NoPort
        /\ open_ports' = closed_input(open_ports, midi_input)
        /\ config_file' = save_config(config_file, selected_midi_device, config_data, outcome)
        /\ running' = FALSE
        /\ Finish([H0 EXCEPT !.o = o], Event("on_closing", outcome, 0, 0))
        /\ UNCHANGED << key_press_times, config_data, midi_devices, selected_midi_device,
                        mouse, presses, key_hist_vars, focus, midi_thread >>

(* --------------------------- inputs of the model ----------------------- *)
(* A run exercises one group of controls, besides closing the window:
   "buttons" (buttons and incoming Control Change), "controls" (sliders,
   knobs and incoming Control Change), "keys" (the keyboard and incoming
   notes), "devices" (the input port selection and incoming messages),
   "range" (the keys and incoming notes at the top of the keyboard). *)
Focuses == {"buttons", "controls", "keys", "devices", "range"}

(* buttons that are clicked: A1 and A2 share CC 0x50 *)
ClickedButtons == {"A1", "A2"}

(* canvas items that are played: white key 1 and black key 0 (both note 37) *)
PlayedKeys ==
    IF focus = "range"
    THEN {white_key_ids[Len(white_key_ids)], black_key_ids[Len(black_key_ids)]}
    ELSE {2, 8}

(* timestamps time.time() returns *)
Times == {0, 275}

(* vertical sliders that are moved: S2 and S9 share CC 0x12 *)
MovedSliders == {1, 8}

SliderValues == {0, 127}

TurnedKnobs == {0}

KnobAngles == {0, 180, 226}

(* messages the input port delivers *)
ButtonMessages ==
    { MidiMessage("control_change", 80, 127, 0), MidiMessage("control_change", 80, 0, 0),
      MidiMessage("control_change", 80, 64, 0), MidiMessage("control_change", 80, 127, 1) }

ControlMessages ==
    { MidiMessage("control_change", 80, 127, 0), MidiMessage("control_change", 16, 5, 0) }

NoteMessages ==
    { MidiMessage("note_on", 37, 90, 0), MidiMessage("note_off", 37, 0, 0),
      MidiMessage("note_on", 36, 90, 0), MidiMessage("note_on", 36, 0, 0),
      MidiMessage("note_on", 79, 90, 0) }

(* around the last mapped note, 107, and below the first, 36 *)
TopNoteMessages ==
    { MidiMessage("note_on", 106, 127, 0), MidiMessage("note_on", 107, 127, 0),
      MidiMessage("note_on", 108, 127, 0), MidiMessage("note_on", 35, 1, 0),
      MidiMessage("note_off", 106, 0, 0) }

MidiMessages ==
    CASE focus = "buttons" -> ButtonMessages
      [] focus = "range" -> TopNoteMessages
      [] focus = "controls" -> ControlMessages
      [] focus = "keys" -> NoteMessages
      [] OTHER -> { MidiMessage("note_on", 36, 90, 0), MidiMessage("control_change", 80, 127, 0) }

StoredMappings ==
    << Mapping("A1", "control_change", 80, 0), Mapping("R1", "control_change", 16, 0),
       Mapping("Stop", "control_change", 80, 0), Mapping("S2", "control_change", 80, 0) >>

StoredConfigs == { File("missing", EmptyConfig), File("ok", Config("PCR", StoredMappings)) }

(* files the "devices" runs also start from: one that does not parse, one
   with a key the program does not know, one whose device is not plugged in *)
ExtraConfig ==
    [midi_device |-> "Other", mappings |-> << Mapping("A1", "control_change", 80, 0) >>,
     theme |-> "dark"]

DeviceConfigs ==
    StoredConfigs \cup { File("malformed", Config("PCR", StoredMappings)), File("ok", ExtraConfig),
                        File("ok", Config("Gone", StoredMappings)) }

DeviceLists == { << "PCR", "Other" >> }

(* the most serial writes one handler attempts *)
MaxWrites == 2

(* --------------------------- the whole program ------------------------- *)
Init ==
    \/ InitWith(Focuses \ {"devices"}, {"None", "open"}, StoredConfigs, DeviceLists)
    \/ InitWith({"devices"}, {"None", "open"}, DeviceConfigs, DeviceLists)

ButtonClick ==
    /\ focus = "buttons"
    /\ \E b \in ClickedButtons, oks \in Oks(1) : on_button_press(b, button_cc(b), oks)

VerticalSlider ==
    /\ focus = "controls"
    /\ \E i \in MovedSliders, v \in SliderValues, oks \in Oks(1) : on_vertical_slider(i, v, oks)

HorizontalSlider ==
    /\ focus = "controls"
    /\ \E v \in SliderValues, oks \in Oks(1) : on_horizontal_slider(v, oks)

KnobClick ==
    /\ focus = "controls"
    /\ \E k \in TurnedKnobs, a \in KnobAngles, now \in Times, oks \in Oks(1) :
          click(k, a, now, oks)

KnobDrag ==
    /\ focus = "controls"
    /\ \E k \in TurnedKnobs, a \in KnobAngles, oks \in Oks(1) : drag(k, a, oks)

KnobRelease ==
    /\ focus = "controls"
    /\ \E k \in TurnedKnobs, now \in Times, oks \in Oks(1) : release(k, now, oks)

KeyPress ==
    /\ focus \in {"keys", "range", "threads"}
    /\ \E k \in PlayedKeys, now \in Times, oks \in Oks(1) : on_key_press(k, now, oks)

KeyRelease ==
    /\ focus \in {"keys", "range", "threads"}
    /\ \E k \in PlayedKeys, now \in Times, oks \in Oks(1) : on_key_release(k, now, oks)

MidiIn ==
    \E m \in MidiMessages, oks \in Oks(MaxWrites) : handle_midi_message(m, oks)

ChangeDevice ==
    /\ focus = "devices"
    /\ \E port \in Range(midi_devices), present \in BOOLEAN, open_ok \in BOOLEAN,
          outcome \in SaveOutcomes : change_midi_device(port, present, open_ok, outcome)

Close ==
    \E oks \in Oks(Len(active_notes)), outcome \in SaveOutcomes : on_closing(oks, outcome)

Next ==
    \/ ButtonClick
    \/ VerticalSlider
    \/ HorizontalSlider
    \/ KnobClick
    \/ KnobDrag
    \/ KnobRelease
    \/ KeyPress
    \/ KeyRelease
    \/ MidiIn
    \/ ChangeDevice
    \/ Close

Spec == Init /\ [][Next]_vars

(* ------------------- the velocity estimator on its own ----------------- *)
(* One key (white key 0, note 36) pressed at 0 or LatePress and released
   at every millisecond up to MaxTime, or a minute later: every hold
   duration in -LatePress..MaxTime, each after every other.  The serial port
   is open and its writes succeed. *)
EstimatorKey == white_key_ids[1]

FineTimes == (0..MaxTime) \cup {LongHold}

InitVel ==
    InitWith({"velocity"}, {"open"}, {File("missing", EmptyConfig)}, { << >> })

TimedKeyPress ==
    \E now \in {0, LatePress} : on_key_press(EstimatorKey, now, [i \in 1..1 |-> TRUE])

TimedKeyRelease ==
    \E now \in FineTimes : on_key_release(EstimatorKey, now, [i \in 1..1 |-> TRUE])

NextVel ==
    \/ TimedKeyPress
    \/ TimedKeyRelease

SpecVel == InitVel /\ [][NextVel]_vars

(* ---------------------- the encoder on its own -------------------------- *)
(* The three senders' encoding, bytes([status | (channel & 0x0F), d1, d2]),
   applied once to a message of every kind on every channel, with data
   bytes from the ends and the middle of the 7-bit range.  ev keeps the kind
   and the channel, calls the message, wire the bytes. *)
Kinds == {"note_off", "note_on", "control_change"}

Channels == 0..15

DataBytes == {0, 1, 63, 64, 126, 127}

InitEnc ==
    InitWith({"encoder"}, {"open"}, {File("missing", EmptyConfig)}, { << >> })

Encode ==
    \E kind \in Kinds, channel \in Channels, d1 \in DataBytes, d2 \in DataBytes :
        /\ ev.op = "__init__"
        /\ ev' = Event("encode", kind, channel, 0)
        /\ calls' = << Msg(kind, d1, d2) >>
        /\ wire' = << pack(channel_status(kind_status(kind), channel), d1, d2) >>
        /\ attempts' = << TRUE >>
        /\ UNCHANGED << serial_conn, button_states, key_press_times, active_notes, knob_value,
                        slider_value, hslider_value, display_text, config_vars, mouse,
                        running, error, presses, midi_synced, key_hist_vars >>

NextEnc ==
    \/ Encode

SpecEnc == InitEnc /\ [][NextEnc]_vars

(* ----------------------- the senders on their own ---------------------- *)
(* send_control_change and CircularKnob.set_value called with values inside
   and outside 0..127, the serial port open or not, the write failing or not. *)
SentControls == {16, 18, 80}

SentValues == {-129, -1, 0, 64, 127, 128, 200, 255, 256, 300}

InitSend ==
    InitWith({"senders"}, {"None", "open"}, {File("missing", EmptyConfig)}, { << >> })

SendControlChange ==
    \E control \in SentControls, value \in SentValues, oks \in Oks(1) :
        /\ running
        /\ Finish([H0 EXCEPT !.o = send_control_change(Out0, control, value, oks)],
                  Event("send_control_change", "", control, value))
        /\ UNCHANGED << serial_conn, key_press_times, config_vars, mouse, running, presses,
                        key_hist_vars >>

SetValue ==
    \E k \in TurnedKnobs, value \in SentValues, oks \in Oks(1) :
        /\ running
        /\ Finish(set_value(H0, k, value, oks), Event("set_value", "", k, value))
        /\ UNCHANGED << serial_conn, key_press_times, config_vars, mouse, running, presses,
                        key_hist_vars >>

NextSend ==
    \/ SendControlChange
    \/ SetValue

SpecSend == InitSend /\ [][NextSend]_vars

(* ------------------- the input callback on its own thread -------------- *)
(* mido.open_input(port, callback=self.handle_midi_message) has the backend
   call handle_midi_message on its own thread, while the Tk main loop runs
   the UI handlers.  Here a note message is handled in two steps, the loop
   over the white keys and the loop over the black keys of press_virtual_key
   / release_virtual_key, and the UI handlers of the keyboard and on_closing
   may run before, between and after them. *)
is_press(message) == message.type = "note_on" /\ message.value > 0

white_key_loop(h, message, oks) ==
    LET virtual_note == controller_to_virtual(message.number)
    IN  IF virtual_note = 0 \/ ~is_white_note(virtual_note) THEN h
        ELSE IF is_press(message) THEN virtual_note_on(h, virtual_note, message.value, oks)
        ELSE virtual_note_off(h, virtual_note, message.value, oks)

black_key_loop(h, message, oks) ==
    LET virtual_note == controller_to_virtual(message.number)
    IN  IF virtual_note = 0 \/ ~is_black_note(virtual_note) THEN h
        ELSE IF is_press(message) THEN virtual_note_on(h, virtual_note, message.value, oks)
        ELSE virtual_note_off(h, virtual_note, message.value, oks)

callback_enters(message, oks) ==
    /\ running
    /\ midi_input # NoPort
    /\ midi_thread = Idle
    /\ midi_thread' = [stage |-> "between_loops", message |-> message]
    /\ Finish(white_key_loop(H0, message, oks),
              Event("handle_midi_message", message.type, message.number, message.value))
    /\ UNCHANGED << serial_conn, key_press_times, config_data, config_file, midi_devices,
                    selected_midi_device, midi_input, open_ports, focus, mouse, running,
                    presses, key_hist_vars >>

callback_returns(oks) ==
    /\ running
    /\ midi_thread.stage = "between_loops"
    /\ midi_thread' = Idle
    /\ Finish(black_key_loop(H0, midi_thread.message, oks),
              Event("handle_midi_message", midi_thread.message.type,
                    midi_thread.message.number, midi_thread.message.value))
    /\ UNCHANGED << serial_conn, key_press_times, config_data, config_file, midi_devices,
                    selected_midi_device, midi_input, open_ports, focus, mouse, running,
                    presses, key_hist_vars >>

InitThreads ==
    InitWith({"threads"}, {"open"}, {File("ok", Config("PCR", << >>))}, DeviceLists)

CallbackEnters ==
    \E m \in NoteMessages, oks \in Oks(1) : callback_enters(m, oks)

CallbackReturns ==
    \E oks \in Oks(1) : callback_returns(oks)

NextThreads ==
    \/ CallbackEnters
    \/ CallbackReturns
    \/ KeyPress
    \/ KeyRelease
    \/ Close

SpecThreads == InitThreads /\ [][NextThreads]_vars

(* ------------------------------ properties ----------------------------- *)
(* the step just taken is on_key_release and it handed a Note Off to the sender *)
ReleasedWithNoteOff ==
    /\ ev.op = "on_key_release"
    /\ Len(calls) = 1
    /\ calls[1].kind = "note_off"

(* C1: a hold of at most 50 ms gives Note Off velocity 127, a hold of at
   least 500 ms gives velocity 1, in the message handed to the sender and in
   the bytes written. *)
C1_Saturation ==
    ReleasedWithNoteOff =>
        /\ last_off.d <= 50 => calls[1].d2 = 127
        /\ last_off.d >= 500 => calls[1].d2 = 1
        /\ \A i \in 1..Len(wire) : wire[i][3] = calls[1].d2

C1_Witness ==
    /\ ReleasedWithNoteOff
    /\ last_off.d = 500
    /\ wire = << <<128, 36, 1>> >>

(* C2 as stated: the velocity is the scaled value rounded to the nearest
   integer, so a hold of 275 ms gives 64. *)
C2_Rounded ==
    ReleasedWithNoteOff =>
        LET d == Max(50, Min(last_off.d, 500))
        IN  calls[1].d2 = Max(1, Min(127, rounded(127 * (500 - d), 450)))

(* C2 as amended: the velocity is the scaled value truncated to an integer
   (the largest v with v * 450 <= 127 * (500 - d)), raised to 1 when that is
   0, so a hold of 275 ms gives 63. *)
C2_Truncated ==
    ReleasedWithNoteOff =>
        LET d == Max(50, Min(last_off.d, 500))
            v == calls[1].d2
        IN  /\ \/ v * 450 <= 127 * (500 - d) /\ 127 * (500 - d) < (v + 1) * 450
               \/ v = 1 /\ 127 * (500 - d) < 450
            /\ last_off.d = 275 => v = 63

C2_Witness ==
    /\ ReleasedWithNoteOff
    /\ last_off.d = 275
    /\ wire = << <<128, 36, 63>> >>

(* C3: of two consecutive releases with hold durations in 50..500 ms, the
   one with the longer hold never has the higher velocity. *)
C3_Monotone ==
    [][ ( /\ ev'.op = "on_key_release"
          /\ last_off.v # 0
          /\ last_off' # last_off
          /\ last_off.d \in 50..500
          /\ last_off'.d \in 50..500 )
        => /\ last_off.d <= last_off'.d => last_off.v >= last_off'.v
           /\ last_off.d >= last_off'.d => last_off.v <= last_off'.v ]_vars

C3_Witness ==
    /\ ReleasedWithNoteOff
    /\ last_off.d = 400
    /\ last_off.v = 28
    /\ calls[1].d2 = 28

(* C4: whatever the press and release timestamps, a release before the
   press and a hold of any length included, the Note Off velocity is in
   1..127. *)
C4_VelocityRange ==
    ReleasedWithNoteOff =>
        /\ calls[1].d2 \in 1..127
        /\ \A i \in 1..Len(wire) : wire[i][3] \in 1..127

C4_Witness ==
    /\ ReleasedWithNoteOff
    /\ last_off.d = -LatePress
    /\ wire = << <<128, 36, 127>> >>

(* the step just taken is on_button_press *)
ButtonStep == ev'.op = "on_button_press" /\ presses'[ev'.name] = presses[ev'.name] + 1

(* C5 as stated: the n-th activation of a button emits 127 when n is odd and
   0 when n is even. *)
C5_ByCount ==
    ev.op = "on_button_press" =>
        /\ Len(calls) = 1
        /\ calls[1].d2 = IF presses[ev.name] % 2 = 1 THEN 127 ELSE 0

(* C5 as amended: an activation flips the button's flag and emits, on the
   button's CC, 127 if the flag was false and 0 if it was true; for a button
   whose flag no incoming Control Change has set, that is 127 at the odd
   activations and 0 at the even ones. *)
C5_Toggle ==
    [][ ButtonStep =>
          LET b == ev'.name
          IN  /\ button_states'[b] = ~button_states[b]
              /\ calls' = << [kind |-> "control_change", d1 |-> button_cc(b),
                              d2 |-> IF button_states[b] THEN 0 ELSE 127] >>
              /\ \A i \in 1..Len(wire') : wire'[i][3] = calls'[1].d2
              /\ b \notin midi_synced =>
                    calls'[1].d2 = IF presses'[b] % 2 = 1 THEN 127 ELSE 0 ]_vars

C5_Witness ==
    /\ ev.op = "on_button_press"
    /\ ev.name = "A1"
    /\ presses["A1"] = 2
    /\ presses["A2"] = 1
    /\ midi_synced = {}
    /\ wire = << <<176, 80, 0>> >>

(* C6 as stated: a button's flag starts false and changes only in that
   button's on_button_press. *)
C6_OnlyByToggle ==
    /\ \A b \in ButtonNames : ~button_states[b]
    /\ [][ \A b \in ButtonNames :
             button_states'[b] # button_states[b] =>
                 ButtonStep /\ ev'.name = b ]_vars

(* C6 as amended: a button's flag starts false and changes only in that
   button's on_button_press, or when an incoming Control Change matches a
   control_change mapping the configuration stores for that button, which
   sets the flag to value = 127. *)
C6_ToggleOrMidi ==
    /\ \A b \in ButtonNames : ~button_states[b]
    /\ [][ \A b \in ButtonNames :
             button_states'[b] # button_states[b] =>
                 \/ ButtonStep /\ ev'.name = b
                 \/ /\ ev'.op = "handle_midi_message"
                    /\ ev'.name = "control_change"
                    /\ \E i \in 1..Len(config_data.mappings) :
                          /\ config_data.mappings[i].id = b
                          /\ config_data.mappings[i].type = "control_change"
                          /\ config_data.mappings[i].number = ev'.num
                    /\ button_states'[b] = (ev'.val = 127) ]_vars

C6_Witness ==
    /\ ev.op = "handle_midi_message"
    /\ button_states["A1"]
    /\ presses["A1"] = 0
    /\ "A1" \in midi_synced

(* C7: on_button_press of one button leaves the flag of every other button,
   those on the same CC number included, as it was. *)
C7_OtherButtonsKept ==
    [][ ButtonStep =>
          \A b \in ButtonNames \ {ev'.name} : button_states'[b] = button_states[b] ]_vars

C7_Witness ==
    /\ ev.op = "on_button_press"
    /\ ev.name = "A1"
    /\ button_cc("A1") = button_cc("A2")
    /\ button_states["A1"]
    /\ ~button_states["A2"]
    /\ presses["A2"] = 2

(* the step just taken is on_key_release *)
ReleaseStep == ev'.op = "on_key_release" /\ mouse.widget = "key" /\ mouse' = MouseUp

(* C8: a release over a key with no recorded press hands nothing to the
   sender, writes nothing and changes neither key_press_times nor
   active_notes (nor any widget). *)
C8_ReleaseWithoutPress ==
    [][ (ReleaseStep /\ ev'.num \notin DOMAIN key_press_times) =>
          /\ calls' = << >>
          /\ wire' = << >>
          /\ error' = "None"
          /\ UNCHANGED << key_press_times, active_notes, display_text, button_states,
                          knob_value, slider_value, hslider_value, serial_conn >> ]_vars

C8_Witness ==
    /\ ev.op = "on_key_release"
    /\ ~key_hist[ev.num].pressed
    /\ key_hist[ev.num].released
    /\ calls = << >>
    /\ DOMAIN key_press_times # {}
    /\ active_notes # << >>

(* C9: after on_key_release over key k there is no press record for k, and
   of the releases over k since its last press exactly one handed a Note Off
   to the sender. *)
C9_RecordConsumed ==
    /\ ev.op = "on_key_release" => ev.num \notin DOMAIN key_press_times
    /\ \A k \in DOMAIN key_hist :
          /\ key_hist[k].offs <= 1
          /\ (key_hist[k].pressed /\ key_hist[k].released) => key_hist[k].offs = 1
          /\ (key_hist[k].pressed /\ ~key_hist[k].released) => k \in DOMAIN key_press_times

C9_Witness ==
    /\ ev.op = "on_key_release"
    /\ calls = << >>
    /\ key_hist[ev.num].pressed
    /\ key_hist[ev.num].released
    /\ key_hist[ev.num].offs = 1

(* the wire form of a message: 0x80, 0x90 or 0xB0 plus the channel, then the
   two data bytes *)
WireForm(msg) ==
    << (CASE msg.kind = "note_off" -> 128
          [] msg.kind = "note_on" -> 144
          [] msg.kind = "control_change" -> 176) + CHANNEL,
       msg.d1, msg.d2 >>

(* C10: every byte string written to the serial port is the 3-byte wire form
   of a message the handler handed to the sender, in the order handed over. *)
C10_ThreeBytes ==
    /\ Len(wire) <= Len(calls)
    /\ \A i \in 1..Len(wire) :
          /\ Len(wire[i]) = 3
          /\ \E j \in i..Len(calls) : wire[i] = WireForm(calls[j])
    /\ Len(wire) = Len(calls) => \A i \in 1..Len(wire) : wire[i] = WireForm(calls[i])

C10_Witness ==
    /\ ev.op = "on_closing"
    /\ wire = << <<128, 37, 100>>, <<128, 36, 90>> >>

(* reading a message back from its three bytes: the kind from the status
   byte's high nibble, the channel from its low nibble, then the data bytes *)
Decoded(bytes) ==
    [kind |-> CASE bytes[1] \div 16 = 8 -> "note_off"
                [] bytes[1] \div 16 = 9 -> "note_on"
                [] bytes[1] \div 16 = 11 -> "control_change"
                [] OTHER -> "unknown",
     channel |-> bytes[1] % 16, d1 |-> bytes[2], d2 |-> bytes[3]]

(* C11: decoding the three bytes the encoder produced gives back the kind,
   channel and two data values that were encoded, and no other message of
   the same ranges encodes to the same bytes. *)
C11_RoundTrip ==
    ev.op = "encode" =>
        /\ Len(wire) = 1
        /\ Len(wire[1]) = 3
        /\ Decoded(wire[1]) = [kind |-> ev.name, channel |-> ev.num,
                               d1 |-> calls[1].d1, d2 |-> calls[1].d2]
        /\ \A kind \in Kinds, channel \in Channels :
              pack(channel_status(kind_status(kind), channel), calls[1].d1, calls[1].d2) = wire[1]
                  => kind = ev.name /\ channel = ev.num

C11_Witness ==
    /\ ev.op = "encode"
    /\ ev.name = "control_change"
    /\ ev.num = 15
    /\ wire = << <<191, 127, 0>> >>

(* the control number the table fixes for a mapped control id: 0x11.. for
   S1..S8, 0x12 for S9, 0x13 for H1, 0x10.. for R1..R18 *)
TableCC(control_id) ==
    CASE control_id \in {"S1", "S2", "S3", "S4", "S5", "S6", "S7", "S8"} ->
            17 + index(SNames, control_id)
      [] control_id = "S9" -> 18
      [] control_id = "H1" -> 19
      [] control_id \in Range(RNames) -> 16 + index(RNames, control_id)
      [] OTHER -> NoNote

(* C12: a vertical slider S_i emits Control Change only on 0x11 + (i - 1)
   (S9 on 0x12), the horizontal slider only on 0x13 and a button only on the
   cc of its BUTTON_MAPPINGS entry, on the configured channel, whatever came
   before; a slider or knob that an incoming Control Change moves emits on its
   own number too. *)
C12_FixedCC ==
    /\ ev.op = "on_vertical_slider" =>
          calls = << [kind |-> "control_change",
                      d1 |-> IF ev.num = 8 THEN 18 ELSE 17 + ev.num, d2 |-> ev.val] >>
    /\ ev.op = "on_horizontal_slider" =>
          calls = << [kind |-> "control_change", d1 |-> 19, d2 |-> ev.val] >>
    /\ ev.op = "on_button_press" =>
          /\ Len(calls) = 1
          /\ calls[1].kind = "control_change"
          /\ \E i \in 1..Len(BUTTON_MAPPINGS) :
                BUTTON_MAPPINGS[i].name = ev.name /\ BUTTON_MAPPINGS[i].cc = calls[1].d1
          /\ ev.name \in {"A1", "A2"} => calls[1].d1 = 80
    /\ (ev.op = "handle_midi_message" /\ ev.name = "control_change") =>
          \A i \in 1..Len(calls) :
              /\ calls[i].kind = "control_change"
              /\ \E j \in 1..Len(config_data.mappings) :
                    /\ config_data.mappings[j].number = ev.num
                    /\ calls[i].d1 = TableCC(config_data.mappings[j].id)
    /\ ev.op \in {"on_vertical_slider", "on_horizontal_slider", "on_button_press"} =>
          \A i \in 1..Len(wire) : wire[i][1] = 176 + CHANNEL /\ wire[i][2] = calls[1].d1

C12_Witness ==
    /\ ev.op = "on_vertical_slider"
    /\ ev.num = 8
    /\ slider_value[1] = 127
    /\ hslider_value = 0
    /\ wire = << <<176, 18, 127>> >>

(* C13 as stated: every Control Change that a click, drag or release on knob
   R_i emits carries control number KNOB_CC_BASE + (i - 1) and the knob's
   current value. *)
C13_KnobCC ==
    ev.op \in {"click", "drag", "release"} =>
        \A i \in 1..Len(calls) :
            /\ calls[i].kind = "control_change"
            /\ calls[i].d1 = KNOB_CC_BASE + ev.num
            /\ calls[i].d2 = knob_value[ev.num]

(* C14 as stated: send_control_change given a value below 0 or above 127
   raises no error and writes a Control Change whose value byte is the value
   clamped into 0..127. *)
C14_Clamped ==
    ev.op = "send_control_change" =>
        /\ error = "None"
        /\ \A i \in 1..Len(wire) : wire[i][3] = Max(0, Min(127, ev.val))

(* C15: every message a handler hands to a sender has both data values in
   0..127, and every byte string written starts with a Note Off, Note On or
   Control Change status whose low nibble is the channel, followed by two
   bytes in 0..127. *)
C15_SevenBit ==
    /\ \A i \in 1..Len(calls) : calls[i].d1 \in 0..127 /\ calls[i].d2 \in 0..127
    /\ \A i \in 1..Len(wire) :
          /\ wire[i][1] \div 16 \in {8, 9, 11}
          /\ wire[i][1] % 16 = CHANNEL
          /\ wire[i][2] \in 0..127
          /\ wire[i][3] \in 0..127

C15_Witness ==
    /\ ev.op = "on_key_release"
    /\ calls = << [kind |-> "note_off", d1 |-> 106, d2 |-> 127] >>
    /\ wire = << <<128, 106, 127>> >>
    /\ active_notes = << <<77, 100>> >>

(* C16: while the serial port is missing or not open, every handler (slider,
   knob, button, key, incoming MIDI, close) writes nothing, calls no write,
   lets no exception escape and leaves active_notes alone, and the window
   stays up unless the handler was on_closing. *)
C16_NoPortNoOp ==
    [][ serial_conn # "open" =>
          /\ wire' = << >>
          /\ attempts' = << >>
          /\ error' = "None"
          /\ active_notes' = active_notes
          /\ serial_conn' = serial_conn
          /\ running' = (ev'.op # "on_closing") ]_vars

C16_Witness ==
    /\ serial_conn = "None"
    /\ ev.op = "on_key_release"
    /\ calls = << [kind |-> "note_off", d1 |-> 37, d2 |-> 63] >>
    /\ wire = << >>
    /\ error = "None"
    /\ active_notes = << >>
    /\ DOMAIN key_press_times # {}
    /\ running

(* the active notes after the messages whose write succeeded *)
RECURSIVE NotesAfter(_, _, _)
NotesAfter(notes, msgs, outcomes) ==
    IF msgs = << >> THEN notes
    ELSE LET m == Head(msgs)
             next == IF ~Head(outcomes) THEN notes
                     ELSE IF m.kind = "note_on" THEN note_on_effect(notes, m.d1, m.d2)
                     ELSE IF m.kind = "note_off" THEN note_off_effect(notes, m.d1)
                     ELSE notes
         IN  NotesAfter(next, Tail(msgs), Tail(outcomes))

(* C17: a handler in which a serial write failed still called write exactly
   once per message, wrote only the messages whose write succeeded, let no
   exception escape, and changed active_notes only by the messages whose
   write succeeded (not at all if every write failed). *)
C17_FailedWriteDropped ==
    [][ (\E i \in 1..Len(attempts') : ~attempts'[i]) =>
          /\ Len(attempts') = Len(calls')
          /\ Len(wire') = Cardinality({i \in 1..Len(attempts') : attempts'[i]})
          /\ error' = "None"
          /\ active_notes' = NotesAfter(active_notes, calls', attempts')
          /\ (\A i \in 1..Len(attempts') : ~attempts'[i]) =>
                wire' = << >> /\ active_notes' = active_notes ]_vars

C17_Witness ==
    /\ ev.op = "on_key_release"
    /\ serial_conn = "open"
    /\ attempts = << FALSE >>
    /\ wire = << >>
    /\ error = "None"
    /\ active_notes = << <<37, 100>> >>

(* the handler just run saved the configuration and the write succeeded *)
Saved ==
    \/ ev'.op = "on_closing" /\ ev'.name = "ok"
    \/ ev'.op = "change_midi_device" /\ ev'.val = "ok"

(* C18: with a configuration file that is missing or does not parse the
   program starts with the empty configuration (no input port opened, the
   first device selected, no mappings), and from then on an incoming Control
   Change updates nothing, no handler lets an exception escape, and a save
   writes the selected device with empty mappings. *)
C18_EmptyOnBadFile ==
    /\ config_file.status # "ok" =>
          /\ config_data = EmptyConfig
          /\ midi_input = NoPort
          /\ selected_midi_device = midi_devices[1]
          /\ error = "None"
    /\ [][ config_data.mappings = << >> =>
             /\ error' = "None"
             /\ (ev'.op = "handle_midi_message" /\ ev'.name = "control_change") =>
                   /\ calls' = << >>
                   /\ UNCHANGED << button_states, slider_value, hslider_value, knob_value,
                                   display_text >>
             /\ Saved =>
                   config_file' = File("ok", [midi_device |-> selected_midi_device',
                                              mappings |-> << >>]) ]_vars

C18_Witness ==
    /\ ev.op = "handle_midi_message"
    /\ ev.name = "control_change"
    /\ config_file.status = "malformed"
    /\ config_file.content.mappings # << >>
    /\ config_data = [midi_device |-> "Other", mappings |-> << >>]
    /\ midi_input = "Other"

(* C19: a save that succeeds leaves in the file exactly the two keys
   midi_device, the device selected in the combobox, and mappings, the
   mappings in memory; nothing else the file held before survives. *)
C19_Rewritten ==
    [][ Saved =>
          /\ DOMAIN config_file'.content = {"midi_device", "mappings"}
          /\ config_file'.status = "ok"
          /\ config_file'.content.midi_device = selected_midi_device'
          /\ config_file'.content.mappings = config_data'.mappings ]_vars

C19_Witness ==
    /\ ev.op = "change_midi_device"
    /\ ev.val = "ok"
    /\ "theme" \in DOMAIN config_data
    /\ config_file = File("ok", Config("PCR", << Mapping("A1", "control_change", 80, 0) >>))

(* C20 as stated: handle_midi_message never runs interleaved with a UI
   handler: while the callback is inside handle_midi_message, the next
   handler step to touch the shared state is its own. *)
C20_SingleContext ==
    [][ midi_thread.stage # "idle" => ev'.op = "handle_midi_message" ]_vars

(* C21: on_closing with the port open hands the sender one Note Off per
   entry of active_notes, in order and with the stored velocity, writes them
   while the port is still open and then closes it; if every write succeeded
   active_notes is empty afterwards; once the port is closed nothing more is
   written. *)
C21_AllNotesOff ==
    [][ /\ (ev'.op = "on_closing" /\ serial_conn = "open") =>
              /\ calls' = [i \in 1..Len(active_notes) |->
                             [kind |-> "note_off", d1 |-> active_notes[i][1],
                              d2 |-> active_notes[i][2]]]
              /\ Len(attempts') = Len(active_notes)
              /\ \A i \in 1..Len(attempts') :
                    attempts'[i] => <<128 + CHANNEL, calls'[i].d1, calls'[i].d2>> \in Range(wire')
              /\ (\A i \in 1..Len(attempts') : attempts'[i]) =>
                    Len(wire') = Len(active_notes) /\ active_notes' = << >>
              /\ serial_conn' = "closed"
        /\ serial_conn = "closed" => wire' = << >> ]_vars

C21_Witness ==
    /\ ev.op = "on_closing"
    /\ serial_conn = "closed"
    /\ attempts = << TRUE, TRUE >>
    /\ wire = << <<128, 36, 90>>, <<128, 37, 100>> >>
    /\ active_notes = << >>

(* index in msgs of the last note message for note n whose write succeeded,
   0 if there is none *)
LastWritten(n, msgs, outcomes) ==
    LET S == {i \in 1..Len(msgs) :
                 /\ Len(outcomes) = Len(msgs)
                 /\ outcomes[i]
                 /\ msgs[i].kind \in {"note_on", "note_off"}
                 /\ msgs[i].d1 = n}
    IN  IF S = {} THEN 0 ELSE CHOOSE i \in S : \A j \in S : j <= i

(* C22: active_notes starts empty, and after every handler a note is in it
   exactly if the last note message written for that note, in this handler or
   an earlier one, was a Note On, whose velocity it then holds. *)
C22_ActiveNotes ==
    /\ active_notes = << >>
    /\ [][ /\ Cardinality(DictKeys(active_notes')) = Len(active_notes')
           /\ \A n \in DictKeys(active_notes) \cup DictKeys(active_notes')
                       \cup {calls'[i].d1 : i \in 1..Len(calls')} :
                 LET k == LastWritten(n, calls', attempts')
                 IN  IF k = 0
                     THEN /\ (n \in DictKeys(active_notes')) = (n \in DictKeys(active_notes))
                          /\ n \in DictKeys(active_notes) =>
                                DictGet(active_notes', n) = DictGet(active_notes, n)
                     ELSE /\ (n \in DictKeys(active_notes')) = (calls'[k].kind = "note_on")
                          /\ n \in DictKeys(active_notes') =>
                                DictGet(active_notes', n) = calls'[k].d2 ]_vars

C22_Witness ==
    /\ ev.op = "handle_midi_message"
    /\ ev.name = "note_on"
    /\ attempts = << FALSE, TRUE >>
    /\ active_notes = << <<37, 90>> >>
    /\ DOMAIN key_press_times # {}

(* C23: with the port open, when the mouse button pressed on a key is
   released, wherever the pointer then is, a Note Off for the pressed key's
   note is handed to the sender and no press record stays in key_press_times. *)
C23_ReleasedWherever ==
    [][ (ReleaseStep /\ serial_conn = "open") =>
           /\ \E i \in 1..Len(calls') :
                 calls'[i].kind = "note_off" /\ calls'[i].d1 = key_note(mouse.id)
           /\ DOMAIN key_press_times' = {} ]_vars

(* C24: the note a key press or release sends belongs to that key alone: no
   other key of the keyboard maps to the same note number. *)
C24_Injective ==
    (ev.op \in {"on_key_press", "on_key_release"} /\ calls # << >>) =>
        \A k \in (Range(white_key_ids) \cup Range(black_key_ids)) \ {ev.num} :
            key_note(k) # calls[1].d1

(* C25: an incoming note_on with velocity > 0 for a note in 36..107 hands the
   sender exactly one Note On with that note and velocity; an incoming
   note_off, or note_on with velocity 0, for such a note hands it exactly one
   Note Off for that note and no Note On. *)
C25_OneMessagePerNote ==
    (/\ ev.op = "handle_midi_message"
     /\ ev.name \in {"note_on", "note_off"}
     /\ ev.num \in 36..107) =>
        /\ Len(calls) = 1
        /\ calls[1].d1 = ev.num
        /\ IF ev.name = "note_on" /\ ev.val > 0
           THEN calls[1].kind = "note_on" /\ calls[1].d2 = ev.val
           ELSE calls[1].kind = "note_off"

(* C28: after vertical slider S_i is moved to v the display reads "S{i}={v}",
   and after a click or drag changes knob R_i to v it reads "R{i}={v}". *)
C28_DisplayNamesControl ==
    /\ ev.op = "on_vertical_slider" =>
          display_text = Text("S{n}={v}", "", ev.num + 1, ev.val)
    /\ (ev.op \in {"click", "drag"} /\ calls # << >>) =>
          display_text = Text("R{n}={v}", "", ev.num + 1, knob_value[ev.num])

(* C29: CircularKnob.set_value leaves the knob's value at its argument
   limited to 0..127, invokes the command (one Control Change handed to the
   sender) exactly when the limited value differs from the value the knob
   had, and so never on the second of two calls in a row with the same
   argument; the knob's value is always within 0..127. *)
C29_LimitedAndOnChange ==
    /\ \A k \in DOMAIN knob_value : knob_value[k] \in 0..127
    /\ [][ ev'.op = "set_value" =>
              LET k == ev'.num
                  limited == Max(0, Min(127, ev'.val))
              IN  /\ knob_value'[k] = limited
                  /\ Len(calls') = IF limited = knob_value[k] THEN 0 ELSE 1
                  /\ (ev.op = "set_value" /\ ev.num = k /\ ev.val = ev'.val) =>
                        calls' = << >> ]_vars

C29_Witness ==
    /\ ev.op = "set_value"
    /\ ev.val = 300
    /\ knob_value[ev.num] = 127
    /\ calls = << >>

(* C26: at most one input port is open at any time; change_midi_device
   closes the port in use first, and then either the new port opened, it is
   the only open port and it is written to config_data (and to the file when
   the save succeeds), or the port was not found or did not open, no port is
   open and config_data and the file are as they were. *)
C26_OnePort ==
    /\ Len(open_ports) <= 1
    /\ [][ /\ Len(open_ports') <= 1
           /\ ev'.op = "change_midi_device" =>
                 IF ev'.val = "unsaved"
                 THEN /\ open_ports' = << >>
                      /\ midi_input' = NoPort
                      /\ UNCHANGED << config_data, config_file >>
                 ELSE /\ open_ports' = << ev'.name >>
                      /\ midi_input' = ev'.name
                      /\ config_data'.midi_device = ev'.name
                      /\ ev'.val = "ok" => config_file'.content.midi_device = ev'.name
                      /\ ev'.val = "unopened" => config_file' = config_file ]_vars

C26_Witness ==
    /\ ev.op = "change_midi_device"
    /\ ev.name = "Other"
    /\ ev.val = "unsaved"
    /\ open_ports = << >>
    /\ "theme" \in DOMAIN config_data
    /\ config_data.midi_device = "PCR"
    /\ config_file = File("ok", Config("PCR", << Mapping("A1", "control_change", 80, 0) >>))

(* C27: closing, with the device selection still the one made at start-up
   from a well-formed file, stores the midi_device and the mappings that were
   loaded, whether or not that device is among the available ones. *)
C27_ConfigSurvives ==
    [][ (/\ ev'.op = "on_closing"
         /\ ev'.name = "ok"
         /\ config_file.status = "ok"
         /\ config_data = load_config(config_file)
         /\ selected_midi_device = initial_selection(config_data, midi_devices)) =>
            /\ config_file'.content.midi_device = config_file.content.midi_device
            /\ config_file'.content.mappings = config_file.content.mappings ]_vars

====
